---- MODULE Spec2Model ----
(***************************************************************************)
(* Model of pyschema's validation engine: Column (src/pyschema/columns.py) *)
(* and Schema.validate with its four per-column checks                     *)
(* (src/pyschema/schema.py).                                               *)
(*                                                                         *)
(* A cell value is a record [t, n, s]: t is the runtime type of the Python *)
(* object ("null", "int", "str"), n its number and s its text.  A finding  *)
(* is the f-string the code appends to `errors`, kept as the sequence of   *)
(* its literal pieces and formatted fields; the raised message is the      *)
(* concatenation the code builds, newline pieces included.                 *)
(*                                                                         *)
(* Further specifications over the same variables: concurrent callers of   *)
(* validate (SpecConc), schemas built from lists with repeated names       *)
(* (SpecDup), the Column interface of pdschema (SpecHeap), to_pyarrow_type *)
(* (SpecLookup), type inference of src/pyschema/types.py (SpecInfer) and   *)
(* infer_schema (SpecFrame).  A variable a specification does not use      *)
(* keeps the value Unused.                                                 *)
(***************************************************************************)
EXTENDS Integers, Sequences, FiniteSets, TLC

\* ------------------------------------------------------------------ bounds
MaxRows == 2

\* ------------------------------------------------------------ cell values
Null == [t |-> "null", n |-> 0, s |-> ""]
IntVal(n) == [t |-> "int", n |-> n, s |-> ""]
StrVal(s) == [t |-> "str", n |-> 0, s |-> s]

Values == {Null, IntVal(-1), IntVal(1), StrVal("x")}

\* pd.isnull(val) / series.isnull()
IsNull(val) == val.t = "null"

\* str(n) for the integers of the model
IntText(n) ==
  CASE n = -1 -> "-1"
    [] n = 0 -> "0"
    [] n = 1 -> "1"
    [] n = 2 -> "2"
    [] n = 3 -> "3"
    [] OTHER -> "4"

\* f"{val}": the text of a value inside an f-string
Format(val) ==
  CASE val.t = "int" -> IntText(val.n)
    [] val.t = "str" -> val.s
    [] OTHER -> "None"

\* -------------------------------------------------------------- validators
\* Caller-supplied callables (Column.validators); each is what it does on a
\* value: it returns True, returns False, or raises.
\*   gt_zero : lambda x: x > 0            (str > int raises TypeError)
\*   is_int  : lambda x: isinstance(x, int)
ValidatorNames == {"gt_zero", "is_int"}

Call(validator, val) ==
  CASE validator = "gt_zero" ->
         IF val.t = "int" THEN (IF val.n > 0 THEN "true" ELSE "false") ELSE "raise"
    [] validator = "is_int" ->
         IF val.t = "int" THEN "true" ELSE "false"
    [] OTHER -> "raise"

\* str(e) of the exception a raising validator throws
ExcText(validator, val) == "'>' not supported between instances of 'str' and 'int'"

\* The validators lists of the model: every list without repetition
ValidatorLists ==
  { vs \in UNION { [1..n -> ValidatorNames] : n \in 0..Cardinality(ValidatorNames) } :
      \A a, b \in 1..Len(vs) : a # b => vs[a] # vs[b] }

\* ------------------------------------------------------------------ Column
\* Column.__init__
Column(name, dtype, nullable, validators) ==
  [name |-> name, dtype |-> dtype, nullable |-> nullable, validators |-> validators]

\* Mutant of type_map: float is stored in single precision
type_mapSinglePrecision ==
  [int |-> "int64", float |-> "float", str |-> "string", bool |-> "bool"]

\* type_map of Column.to_pyarrow_type
type_map == [int |-> "int64", float |-> "double", str |-> "string", bool |-> "bool"]

\* Mutant of ToPyarrowTypeRaises: bool has no entry of its own
ToPyarrowTypeRaisesOnBool(col) == col.dtype \notin {"int", "float", "str"}

\* Column.to_pyarrow_type: the storage type, or TypeError for an unmapped dtype
ToPyarrowTypeRaises(col) == col.dtype \notin DOMAIN type_map
ToPyarrowType(col) == type_map[col.dtype]

\* pa.array([val], type=patype) accepts the value
ArrowFits(val, patype) ==
  CASE patype = "int64" -> val.t = "int"
    [] patype = "double" -> val.t = "int"
    [] patype = "string" -> val.t = "str"
    [] OTHER -> FALSE

\* series.dropna()
RECURSIVE DropNa(_)
DropNa(series) ==
  IF series = <<>> THEN <<>>
  ELSE IF IsNull(Head(series)) THEN DropNa(Tail(series))
       ELSE <<Head(series)>> \o DropNa(Tail(series))

\* ---------------------------------------------------------------- findings
\* The texts appended to `errors`, as the pieces of their f-strings.
MissingText(name) == <<"Missing column: ", name>>
NullText(name) == <<"Null values found in non-nullable column: ", name>>
TypeText(name, reason) == <<"Type mismatch in column '", name, "': ">> \o reason
FailedText(name, i, val) ==
  <<"Validation failed in '", name, "' at index ", IntText(i), ": ", Format(val)>>
\* Mutant of ValidatorErrorText: the text of the False branch is reused
ValidatorErrorTextAsFailed(name, i, e) ==
  <<"Validation failed in '", name, "' at index ", IntText(i), ": ", e>>

ValidatorErrorText(name, i, e) ==
  <<"Validator error in '", name, "' at index ", IntText(i), ": ", e>>

\* str(e) of the pa.ArrowInvalid / pa.ArrowTypeError raised for the first
\* value that does not convert
ArrowReason(val, patype) == <<"Could not convert ", Format(val), " to ", patype>>

\* ------------------------------------------------------------------ Schema
\* Schema.__init__: {col.name: col for col in columns}.  The dict is kept as
\* the sequence of its values in insertion order: a repeated name keeps the
\* position of its first insertion and the value of its last.
\* Mutant of SchemaInit: a repeated name keeps its first spec
RECURSIVE SchemaInitFirstWins(_)
SchemaInitFirstWins(cols) ==
  IF cols = <<>> THEN <<>>
  ELSE LET n == Len(cols)
           last == cols[n]
           before == SchemaInitFirstWins(SubSeq(cols, 1, n - 1))
       IN IF \E i \in 1..Len(before) : before[i].name = last.name
          THEN before
          ELSE Append(before, last)

RECURSIVE SchemaInit(_)
SchemaInit(cols) ==
  IF cols = <<>> THEN <<>>
  ELSE LET n == Len(cols)
           last == cols[n]
           before == SchemaInit(SubSeq(cols, 1, n - 1))
       IN IF \E i \in 1..Len(before) : before[i].name = last.name
          THEN [i \in 1..Len(before) |->
                  IF before[i].name = last.name THEN last ELSE before[i]]
          ELSE Append(before, last)

\* Schema._check_missing_column: the finding, or none
CheckMissingColumn(col_name, table) ==
  IF col_name \notin DOMAIN table THEN <<MissingText(col_name)>> ELSE <<>>

\* Mutant of CheckNullability: the `not` is lost
CheckNullabilityInverted(col, series) ==
  IF col.nullable /\ (\E i \in 1..Len(series) : IsNull(series[i]))
  THEN <<NullText(col.name)>>
  ELSE <<>>

\* Mutant of CheckNullability: one finding per null row
CheckNullabilityPerRow(col, series) ==
  IF col.nullable THEN <<>>
  ELSE [n \in 1..Cardinality({i \in 1..Len(series) : IsNull(series[i])}) |->
          NullText(col.name)]

\* Schema._check_nullability: the finding, or none
CheckNullability(col, series) ==
  IF ~col.nullable /\ (\E i \in 1..Len(series) : IsNull(series[i]))
  THEN <<NullText(col.name)>>
  ELSE <<>>

\* Mutant of CheckType: the series is converted with its nulls
CheckTypeWithNulls(col, series) ==
  LET patype == ToPyarrowType(col)
      bad == {i \in 1..Len(series) : ~ArrowFits(series[i], patype)}
  IN IF bad = {} THEN <<>>
     ELSE LET i == CHOOSE j \in bad : \A m \in bad : j <= m
          IN <<TypeText(col.name, ArrowReason(series[i], patype))>>

\* Schema._check_type, for a column whose dtype to_pyarrow_type maps:
\* pa.array(series.dropna(), type=...) fails on the first value that does not
\* convert; the failure is caught and returned as one finding.
CheckType(col, series) ==
  LET vals == DropNa(series)
      patype == ToPyarrowType(col)
      bad == {i \in 1..Len(vals) : ~ArrowFits(vals[i], patype)}
  IN IF bad = {} THEN <<>>
     ELSE LET i == CHOOSE j \in bad : \A m \in bad : j <= m
          IN <<TypeText(col.name, ArrowReason(vals[i], patype))>>

\* The index label of the row at position pos (default RangeIndex)
IndexAt(pos) == pos - 1

\* One validator invocation, as recorded in the history of a call: the j-th
\* validator of column `name` called on the value at index i
Invocation(name, i, j, validator, val) ==
  [col |-> name, index |-> i, j |-> j, validator |-> validator, val |-> val]

\* The inner loop of Schema._check_validators (lines 33-41) for one value,
\* from validator position j on: a False result appends and breaks, an
\* exception is caught and appended and the loop goes on.
RECURSIVE RunValidators(_, _, _, _)
RunValidators(col, i, val, j) ==
  IF j > Len(col.validators) THEN [errors |-> <<>>, invoked |-> <<>>]
  ELSE LET validator == col.validators[j]
           r == Call(validator, val)
           inv == <<Invocation(col.name, i, j, validator, val)>>
           rest == RunValidators(col, i, val, j + 1)
       IN CASE r = "false" ->
                 [errors |-> <<FailedText(col.name, i, val)>>, invoked |-> inv]
            [] r = "raise" ->
                 [errors |-> <<ValidatorErrorText(col.name, i, ExcText(validator, val))>>
                               \o rest.errors,
                  invoked |-> inv \o rest.invoked]
            [] OTHER ->
                 [errors |-> rest.errors, invoked |-> inv \o rest.invoked]

\* Mutant of CheckValidators: null values are not skipped
RECURSIVE CheckValidatorsOnNulls(_, _, _)
CheckValidatorsOnNulls(col, series, pos) ==
  IF pos > Len(series) THEN [errors |-> <<>>, invoked |-> <<>>]
  ELSE LET rest == CheckValidatorsOnNulls(col, series, pos + 1)
           row == RunValidators(col, IndexAt(pos), series[pos], 1)
       IN [errors |-> row.errors \o rest.errors,
           invoked |-> row.invoked \o rest.invoked]

\* Schema._check_validators: the outer loop over series.items(), from row
\* position pos on; null values are skipped.
RECURSIVE CheckValidators(_, _, _)
CheckValidators(col, series, pos) ==
  IF pos > Len(series) THEN [errors |-> <<>>, invoked |-> <<>>]
  ELSE LET rest == CheckValidators(col, series, pos + 1)
       IN IF IsNull(series[pos]) THEN rest
          ELSE LET row == RunValidators(col, IndexAt(pos), series[pos], 1)
               IN [errors |-> row.errors \o rest.errors,
                   invoked |-> row.invoked \o rest.invoked]

\* "\n".join(texts)
RECURSIVE JoinLines(_)
JoinLines(texts) ==
  IF texts = <<>> THEN <<>>
  ELSE IF Len(texts) = 1 THEN texts[1]
       ELSE texts[1] \o <<"\n">> \o JoinLines(Tail(texts))

\* Mutant of ErrorMessage: the findings are concatenated without separator
RECURSIVE Concat(_)
Concat(texts) == IF texts = <<>> THEN <<>> ELSE Head(texts) \o Concat(Tail(texts))

ErrorMessageUnseparated(errs) == <<"Schema validation failed:\n">> \o Concat(errs)

\* The message of the ValueError validate raises (line 66)
ErrorMessage(errs) == <<"Schema validation failed:\n">> \o JoinLines(errs)

\* The message of the TypeError of Column.to_pyarrow_type (line 31)
UnsupportedMessage(col) == <<"Unsupported dtype: ", col.dtype>>

\* ------------------------------------------------------------------ inputs
\* Declared column names, in the order the schemas of the model declare them
ColNames == <<"age", "name">>
ColNameSet == {ColNames[i] : i \in 1..Len(ColNames)}

\* Declared dtypes: int and str are in type_map, dict is not
DTypes == {"int", "str", "dict"}

\* The column lists handed to Schema(...)
ColumnLists ==
  UNION { [1..n -> DTypes \X BOOLEAN \X ValidatorLists] : n \in 0..Len(ColNames) }

ColumnsOf(spec) ==
  [i \in 1..Len(spec) |-> Column(ColNames[i], spec[i][1], spec[i][2], spec[i][3])]

\* The series a table column can hold
SeriesSet == UNION { [1..n -> Values] : n \in 0..MaxRows }

\* The tables handed to validate: a function from the names of the columns
\* present to their series (all of one length)
Tables ==
  UNION { [present -> {series}] : present \in SUBSET ColNameSet, series \in SeriesSet }

\* ------------------------------------------------------------------- state
VARIABLES
  columns,   \* self.columns: the column specs in insertion order
  df,        \* the table under validation
  pc,        \* position of the caller: "idle", "loop" (inside validate), "done"
  k,         \* position of the for loop of validate in self.columns
  errors,    \* the local list `errors` of the running call
  outcome,   \* how the last call ended: "none", "True", "ValueError", "TypeError"
  message,   \* the message of the raised error
  invoked,   \* history: the validator invocations of the running call
  lookups,   \* history: the columns whose to_pyarrow_type the call has called
  prev,      \* outcome and message of the previous completed call
  given,     \* the column list handed to Schema(...)
  calls,     \* concurrent callers of validate: each caller's table and locals
  heap,      \* the Column objects of a program using the Column interface
  lookup,    \* a Column and the results of its to_pyarrow_type calls
  infer,     \* a series and the result of inferring its type
  frame,     \* a table and the schema infer_schema derives from it
  fn,        \* one call of a pdfunction-wrapped function
  decl       \* a declarative Schema subclass and its instance

vars ==
  <<columns, df, pc, k, errors, outcome, message, invoked, lookups, prev,
    given, calls, heap, lookup, infer, frame, fn, decl>>

\* The state of one sequential validate call, and the state outside it
validateVars == <<columns, df, pc, k, errors, outcome, message, invoked, lookups, prev>>
units == <<given, calls, heap, lookup, infer, frame, fn, decl>>

\* The value of a variable no operation of the specification at hand uses
Unused == <<>>

NoResult == [outcome |-> "none", message |-> <<>>]

Init ==
  /\ columns \in {SchemaInit(ColumnsOf(spec)) : spec \in ColumnLists}
  /\ df \in Tables
  /\ pc = "idle"
  /\ k = 1
  /\ errors = <<>>
  /\ outcome = "none"
  /\ message = <<>>
  /\ invoked = <<>>
  /\ lookups = <<>>
  /\ prev = NoResult
  /\ given = Unused
  /\ calls = Unused
  /\ heap = Unused
  /\ lookup = Unused
  /\ infer = Unused
  /\ frame = Unused
  /\ fn = Unused
  /\ decl = Unused

\* Mutant of ValidateEnter: the findings list outlives the call (kept on
\* the instance instead of created per call)
ValidateEnterKeepErrors ==
  /\ pc = "idle" \/ (pc = "done" /\ prev = NoResult)
  /\ prev' = IF pc = "done" THEN [outcome |-> outcome, message |-> message] ELSE prev
  /\ pc' = "loop"
  /\ k' = 1
  /\ outcome' = "none"
  /\ message' = <<>>
  /\ invoked' = <<>>
  /\ lookups' = <<>>
  /\ UNCHANGED <<columns, df, errors>>
  /\ UNCHANGED units

\* validate is called (line 45: errors = []); a caller calls it a second
\* time on the same table once the first call has ended.
ValidateEnter ==
  /\ pc = "idle" \/ (pc = "done" /\ prev = NoResult)
  /\ prev' = IF pc = "done" THEN [outcome |-> outcome, message |-> message] ELSE prev
  /\ pc' = "loop"
  /\ k' = 1
  /\ errors' = <<>>
  /\ outcome' = "none"
  /\ message' = <<>>
  /\ invoked' = <<>>
  /\ lookups' = <<>>
  /\ UNCHANGED <<columns, df>>
  /\ UNCHANGED units

\* Mutant of ColumnMissing: the missing column raises at once (fail-fast)
ColumnMissingFailFast ==
  /\ pc = "loop"
  /\ k <= Len(columns)
  /\ LET col == columns[k]
         missing == CheckMissingColumn(col.name, df)
     IN /\ missing # <<>>
        /\ errors' = errors \o missing
        /\ message' = ErrorMessage(errors \o missing)
  /\ outcome' = "ValueError"
  /\ pc' = "done"
  /\ UNCHANGED <<columns, df, k, invoked, lookups, prev>>
  /\ UNCHANGED units

\* Mutant of ColumnMissing: no `continue`, the checks go on with an empty
\* series for the absent column
ColumnMissingNoContinue ==
  /\ pc = "loop"
  /\ k <= Len(columns)
  /\ LET col == columns[k]
         missing == CheckMissingColumn(col.name, df)
     IN /\ missing # <<>>
        /\ errors' = errors \o missing
        /\ lookups' = Append(lookups, col.name)
  /\ k' = k + 1
  /\ UNCHANGED <<columns, df, pc, outcome, message, invoked, prev>>
  /\ UNCHANGED units

\* One iteration of the for loop for a column the table lacks (lines 47-51)
ColumnMissing ==
  /\ pc = "loop"
  /\ k <= Len(columns)
  /\ LET col == columns[k]
         missing == CheckMissingColumn(col.name, df)
     IN /\ missing # <<>>
        /\ errors' = errors \o missing
  /\ k' = k + 1
  /\ UNCHANGED <<columns, df, pc, outcome, message, invoked, lookups, prev>>
  /\ UNCHANGED units

\* Mutant of ColumnChecked: the type finding is appended after the validator
\* findings
ColumnCheckedTypeLast ==
  /\ pc = "loop"
  /\ k <= Len(columns)
  /\ LET col == columns[k]
     IN /\ CheckMissingColumn(col.name, df) = <<>>
        /\ ~ToPyarrowTypeRaises(col)
        /\ LET series == df[col.name]
               nullability == CheckNullability(col, series)
               type_error == CheckType(col, series)
               checked == CheckValidators(col, series, 1)
           IN /\ errors' = errors \o nullability \o checked.errors \o type_error
              /\ invoked' = invoked \o checked.invoked
              /\ lookups' = Append(lookups, col.name)
  /\ k' = k + 1
  /\ UNCHANGED <<columns, df, pc, outcome, message, prev>>
  /\ UNCHANGED units

\* One iteration for a present column of a mapped dtype (lines 47-63)
ColumnChecked ==
  /\ pc = "loop"
  /\ k <= Len(columns)
  /\ LET col == columns[k]
     IN /\ CheckMissingColumn(col.name, df) = <<>>
        /\ ~ToPyarrowTypeRaises(col)
        /\ LET series == df[col.name]
               nullability == CheckNullability(col, series)
               type_error == CheckType(col, series)
               checked == CheckValidators(col, series, 1)
           IN /\ errors' = errors \o nullability \o type_error \o checked.errors
              /\ invoked' = invoked \o checked.invoked
              /\ lookups' = Append(lookups, col.name)
  /\ k' = k + 1
  /\ UNCHANGED <<columns, df, pc, outcome, message, prev>>
  /\ UNCHANGED units

\* Mutant of ColumnUnsupported: the TypeError is caught like the Arrow errors,
\* recorded as a type finding, and the validators and the loop go on
ColumnUnsupportedRecorded ==
  /\ pc = "loop"
  /\ k <= Len(columns)
  /\ LET col == columns[k]
     IN /\ CheckMissingColumn(col.name, df) = <<>>
        /\ ToPyarrowTypeRaises(col)
        /\ LET checked == CheckValidators(col, df[col.name], 1)
           IN /\ errors' = errors \o CheckNullability(col, df[col.name])
                             \o <<TypeText(col.name, UnsupportedMessage(col))>>
                             \o checked.errors
              /\ invoked' = invoked \o checked.invoked
        /\ lookups' = Append(lookups, col.name)
  /\ k' = k + 1
  /\ UNCHANGED <<columns, df, pc, outcome, message, prev>>
  /\ UNCHANGED units

\* Mutant of ColumnUnsupported: the error carries the findings recorded so far
ColumnUnsupportedComposite ==
  /\ pc = "loop"
  /\ k <= Len(columns)
  /\ LET col == columns[k]
     IN /\ CheckMissingColumn(col.name, df) = <<>>
        /\ ToPyarrowTypeRaises(col)
        /\ errors' = errors \o CheckNullability(col, df[col.name])
        /\ lookups' = Append(lookups, col.name)
        /\ message' = ErrorMessage(errors') \o <<"\n">> \o UnsupportedMessage(col)
  /\ outcome' = "TypeError"
  /\ pc' = "done"
  /\ UNCHANGED <<columns, df, k, invoked, prev>>
  /\ UNCHANGED units

\* One iteration for a present column whose dtype to_pyarrow_type does not
\* map: the TypeError leaves _check_type (only the Arrow errors are caught
\* there) and validate.
ColumnUnsupported ==
  /\ pc = "loop"
  /\ k <= Len(columns)
  /\ LET col == columns[k]
     IN /\ CheckMissingColumn(col.name, df) = <<>>
        /\ ToPyarrowTypeRaises(col)
        /\ errors' = errors \o CheckNullability(col, df[col.name])
        /\ lookups' = Append(lookups, col.name)
        /\ message' = UnsupportedMessage(col)
  /\ outcome' = "TypeError"
  /\ pc' = "done"
  /\ UNCHANGED <<columns, df, k, invoked, prev>>
  /\ UNCHANGED units

\* After the loop, with findings: raise ValueError (lines 65-66)
ValidateRaise ==
  /\ pc = "loop"
  /\ k > Len(columns)
  /\ errors # <<>>
  /\ outcome' = "ValueError"
  /\ message' = ErrorMessage(errors)
  /\ pc' = "done"
  /\ UNCHANGED <<columns, df, k, errors, invoked, lookups, prev>>
  /\ UNCHANGED units

\* After the loop, without findings: return True (line 67)
ValidateReturn ==
  /\ pc = "loop"
  /\ k > Len(columns)
  /\ errors = <<>>
  /\ outcome' = "True"
  /\ pc' = "done"
  /\ UNCHANGED <<columns, df, k, errors, message, invoked, lookups, prev>>
  /\ UNCHANGED units

Next ==
  \/ ValidateEnter
  \/ ColumnMissing
  \/ ColumnChecked
  \/ ColumnUnsupported
  \/ ValidateRaise
  \/ ValidateReturn

Spec == Init /\ [][Next]_vars

\* ============================================================== properties
\* Vocabulary of the properties, stated on the table and the schema alone.

ColumnIds == 1..Len(columns)
Present(i) == columns[i].name \in DOMAIN df
SeriesOf(i) == df[columns[i].name]
NonNullRows(i) == {pos \in 1..Len(SeriesOf(i)) : ~IsNull(SeriesOf(i)[pos])}
HasNull(i) == \E pos \in 1..Len(SeriesOf(i)) : IsNull(SeriesOf(i)[pos])

\* Some validator of the column does not return True on the value
FailedBy(col, val) ==
  \E j \in 1..Len(col.validators) : Call(col.validators[j], val) # "true"

\* The loop of the running or ended call has completed its iteration for
\* column i
Processed(i) == pc # "idle" /\ i < k

\* Pieces of the finding texts
MissingPrefix == "Missing column: "
NullPrefix == "Null values found in non-nullable column: "
TypePrefix == "Type mismatch in column '"
FailedPrefix == "Validation failed in '"
ValidatorErrorPrefix == "Validator error in '"

IsValidatorFinding(e, name, i) ==
  /\ Len(e) = 6
  /\ e[1] \in {FailedPrefix, ValidatorErrorPrefix}
  /\ e[2] = name
  /\ e[4] = IntText(i)

\* The recorded findings that name the column
FindingsOf(name) == {n \in 1..Len(errors) : errors[n][2] = name}

\* The text occurs in the raised message
Contains(msg, e) ==
  \E s \in 1..(Len(msg) - Len(e) + 1) : SubSeq(msg, s, s + Len(e) - 1) = e

ContainsValidatorFinding(msg, name, i) ==
  \E s \in 1..(Len(msg) - 5) : IsValidatorFinding(SubSeq(msg, s, s + 5), name, i)

\* C1: validate is exhaustive.  The composite error is raised only after the
\* last declared column, a call ends before its last column only with the
\* unsupported-dtype TypeError, and the report of a call holds a
\* missing-column finding for every absent declared column and a validator
\* finding for every (column, non-null row) whose value a validator fails.
C1_Exhaustive ==
  /\ outcome = "ValueError" => k > Len(columns)
  /\ (pc = "done" /\ outcome # "TypeError") =>
       /\ k > Len(columns)
       /\ \A i \in ColumnIds :
            IF ~Present(i)
            THEN /\ outcome = "ValueError"
                 /\ Contains(message, <<MissingPrefix, columns[i].name>>)
            ELSE \A pos \in NonNullRows(i) :
                   FailedBy(columns[i], SeriesOf(i)[pos]) =>
                     /\ outcome = "ValueError"
                     /\ ContainsValidatorFinding(message, columns[i].name, IndexAt(pos))

\* C1 witness: a report that holds a missing-column finding for the first
\* column and validator findings for both rows of the second
C1_Witness ==
  /\ outcome = "ValueError"
  /\ Len(columns) = 2
  /\ ~Present(1)
  /\ Present(2)
  /\ Len(SeriesOf(2)) = 2
  /\ \A pos \in 1..2 :
       ~IsNull(SeriesOf(2)[pos]) /\ FailedBy(columns[2], SeriesOf(2)[pos])

\* Mutant-independent reading of a clean table: no declared column is
\* missing, no non-nullable column holds a null, every non-null value fits
\* the declared storage type and every validator returns True on it.
Clean ==
  \A i \in ColumnIds :
    /\ Present(i)
    /\ (columns[i].nullable \/ ~HasNull(i))
    /\ \A pos \in NonNullRows(i) :
         /\ ~ToPyarrowTypeRaises(columns[i])
         /\ ArrowFits(SeriesOf(i)[pos], ToPyarrowType(columns[i]))
         /\ \A j \in 1..Len(columns[i].validators) :
              Call(columns[i].validators[j], SeriesOf(i)[pos]) = "true"

AllSupported == \A i \in ColumnIds : ~ToPyarrowTypeRaises(columns[i])

\* C2: with all declared dtypes supported, an ended call has returned True
\* (and raised nothing) exactly when the table is clean, and has raised
\* otherwise; a call never returns True on a table that is not clean.
C2_TrueIffClean ==
  pc = "done" =>
    /\ outcome = "True" => (Clean /\ message = <<>>)
    /\ AllSupported =>
         /\ Clean => outcome = "True"
         /\ ~Clean => outcome = "ValueError"

\* C2 witness: True returned for two present, checked columns with rows and
\* validators
C2_Witness ==
  /\ pc = "done"
  /\ outcome = "True"
  /\ Len(columns) = 2
  /\ \A i \in ColumnIds :
       /\ Present(i)
       /\ columns[i].validators # <<>>
       /\ NonNullRows(i) # {}

\* C3: a declared column absent from the table gets exactly one finding,
\* 'Missing column: c'; none of its validators is invoked and its dtype is
\* never looked up; the loop goes on (a call never ends at an absent column).
C3_MissingColumn ==
  /\ \A i \in ColumnIds :
       (Processed(i) /\ ~Present(i)) =>
         /\ Cardinality(FindingsOf(columns[i].name)) = 1
         /\ \A n \in FindingsOf(columns[i].name) :
              errors[n] = <<MissingPrefix, columns[i].name>>
         /\ \A n \in 1..Len(invoked) : invoked[n].col # columns[i].name
         /\ \A n \in 1..Len(lookups) : lookups[n] # columns[i].name
  /\ (pc = "done" /\ k <= Len(columns)) => Present(k)

\* C3 witness: the first column was absent, its finding is recorded and the
\* second column has been checked after it
C3_Witness ==
  /\ Len(columns) = 2
  /\ Processed(1) /\ ~Present(1)
  /\ columns[1].validators # <<>>
  /\ Processed(2) /\ Present(2)
  /\ Len(invoked) > 0

\* C4: a present non-nullable column with a null gets the nullability
\* finding exactly once, however many rows are null, and its type check and
\* its validators still run on the non-null values, so the column can
\* contribute all three kinds of finding; a nullable column gets no
\* nullability finding.
TypeMismatchExpected(i) ==
  \E pos \in NonNullRows(i) : ~ArrowFits(SeriesOf(i)[pos], ToPyarrowType(columns[i]))

NullFindings(name) == {n \in 1..Len(errors) : errors[n] = <<NullPrefix, name>>}

C4_Nullability ==
  \A i \in ColumnIds :
    /\ columns[i].nullable => NullFindings(columns[i].name) = {}
    /\ (Processed(i) /\ Present(i)) =>
         /\ Cardinality(NullFindings(columns[i].name)) =
              (IF ~columns[i].nullable /\ HasNull(i) THEN 1 ELSE 0)
         /\ \E n \in 1..Len(lookups) : lookups[n] = columns[i].name
         /\ TypeMismatchExpected(i) <=>
              \E n \in FindingsOf(columns[i].name) : errors[n][1] = TypePrefix
         /\ \A pos \in NonNullRows(i) :
              /\ columns[i].validators # <<>> =>
                   \E n \in 1..Len(invoked) :
                     /\ invoked[n].col = columns[i].name
                     /\ invoked[n].index = IndexAt(pos)
                     /\ invoked[n].j = 1
              /\ FailedBy(columns[i], SeriesOf(i)[pos]) =>
                   \E n \in 1..Len(errors) :
                     IsValidatorFinding(errors[n], columns[i].name, IndexAt(pos))

\* C4 witness: one non-nullable column with a null contributes a
\* nullability finding, a type finding and a validator finding
C4_Witness ==
  /\ outcome = "ValueError"
  /\ \E i \in ColumnIds :
       /\ Present(i) /\ ~columns[i].nullable /\ HasNull(i)
       /\ Cardinality(NullFindings(columns[i].name)) = 1
       /\ \E n \in FindingsOf(columns[i].name) : errors[n][1] = TypePrefix
       /\ \E n \in FindingsOf(columns[i].name) :
            errors[n][1] \in {FailedPrefix, ValidatorErrorPrefix}

\* The position of the declared column of that name
ColPos(name) == CHOOSE i \in ColumnIds : columns[i].name = name

ValidatorFindings(name, i) ==
  {n \in 1..Len(errors) : IsValidatorFinding(errors[n], name, i)}

\* C5: per-row short-circuit.  Every validator invoked on a value comes
\* after validators that all returned True on it (none is invoked after one
\* that returned False or raised), and a row contributes at most one
\* validator finding.
C5_ShortCircuit ==
  /\ \A n \in 1..Len(invoked) :
       LET inv == invoked[n]
           col == columns[ColPos(inv.col)]
       IN \A j \in 1..(inv.j - 1) : Call(col.validators[j], inv.val) = "true"
  /\ \A i \in ColumnIds : \A pos \in 1..MaxRows + 1 :
       Cardinality(ValidatorFindings(columns[i].name, IndexAt(pos))) <= 1

\* C6: every invocation that raised left a 'Validator error in' finding for
\* its (column, row) and every invocation that returned False a 'Validation
\* failed in' finding; a finding of either kind has an invocation of its
\* kind behind it; a call in which a validator raised still runs to the end
\* of the loop and raises the composite error.
Raised(inv) == Call(inv.validator, inv.val) = "raise"
ReturnedFalse(inv) == Call(inv.validator, inv.val) = "false"

FindingOfKind(prefix, name, i) ==
  \E n \in 1..Len(errors) :
    /\ errors[n][1] = prefix
    /\ errors[n][2] = name
    /\ errors[n][4] = IntText(i)

C6_ValidatorErrorDistinct ==
  /\ \A n \in 1..Len(invoked) :
       /\ Raised(invoked[n]) =>
            FindingOfKind(ValidatorErrorPrefix, invoked[n].col, invoked[n].index)
       /\ ReturnedFalse(invoked[n]) =>
            FindingOfKind(FailedPrefix, invoked[n].col, invoked[n].index)
  /\ \A n \in 1..Len(errors) :
       /\ errors[n][1] = ValidatorErrorPrefix =>
            \E m \in 1..Len(invoked) :
              /\ Raised(invoked[m])
              /\ invoked[m].col = errors[n][2]
              /\ IntText(invoked[m].index) = errors[n][4]
       /\ errors[n][1] = FailedPrefix =>
            \E m \in 1..Len(invoked) :
              /\ ReturnedFalse(invoked[m])
              /\ invoked[m].col = errors[n][2]
              /\ IntText(invoked[m].index) = errors[n][4]
  /\ (pc = "done" /\ outcome # "TypeError" /\ \E n \in 1..Len(invoked) : Raised(invoked[n])) =>
       /\ outcome = "ValueError"
       /\ k > Len(columns)
       /\ \E s \in 1..Len(message) : message[s] = ValidatorErrorPrefix

\* C6 witness: one raised report holds a 'Validator error in' finding and a
\* 'Validation failed in' finding of different rows
C6_Witness ==
  /\ outcome = "ValueError"
  /\ \E s, t \in 1..Len(message) :
       /\ message[s] = ValidatorErrorPrefix
       /\ message[t] = FailedPrefix
       /\ message[s + 3] # message[t + 3]

\* C7: the findings are recorded in a fixed order: by declaration position
\* of their column; within a column the missing-column finding or else the
\* nullability finding, the type finding, the validator findings; validator
\* findings of a column by row.
Category(e) ==
  CASE e[1] = MissingPrefix -> 0
    [] e[1] = NullPrefix -> 1
    [] e[1] = TypePrefix -> 2
    [] OTHER -> 3

RowOf(e) == CHOOSE i \in 0..MaxRows : IntText(i) = e[4]

InOrder(e, f) ==
  \/ ColPos(e[2]) < ColPos(f[2])
  \/ /\ ColPos(e[2]) = ColPos(f[2])
     /\ \/ Category(e) < Category(f)
        \/ /\ Category(e) = 3
           /\ Category(f) = 3
           /\ RowOf(e) <= RowOf(f)

\* The findings of the raised message, split at its newline pieces
RECURSIVE SplitLines(_, _)
SplitLines(msg, cur) ==
  IF msg = <<>> THEN <<cur>>
  ELSE IF Head(msg) = "\n" THEN <<cur>> \o SplitLines(Tail(msg), <<>>)
       ELSE SplitLines(Tail(msg), Append(cur, Head(msg)))

ReportLines == SplitLines(Tail(message), <<>>)

\* InOrder is transitive, so a sequence is in order when its neighbours are
Ordered(texts) ==
  \A n \in 1..(Len(texts) - 1) : InOrder(texts[n], texts[n + 1])

C7_FindingOrder ==
  /\ Ordered(errors)
  /\ outcome = "ValueError" => Ordered(ReportLines)

\* C7 witness: a report in which the first column contributes a type
\* finding and validator findings of two rows, and the second column a
\* finding after them
C7_Witness ==
  /\ outcome = "ValueError"
  /\ Len(columns) = 2
  /\ \E n \in FindingsOf(columns[1].name) : Category(errors[n]) = 2
  /\ \E n, m \in FindingsOf(columns[1].name) :
       /\ Category(errors[n]) = 3
       /\ Category(errors[m]) = 3
       /\ RowOf(errors[n]) < RowOf(errors[m])
  /\ FindingsOf(columns[2].name) # {}

C9_UnsupportedFatal ==
  /\ \A i \in ColumnIds : (Processed(i) /\ Present(i)) => ~ToPyarrowTypeRaises(columns[i])
  /\ outcome = "TypeError" =>
       /\ pc = "done"
       /\ k <= Len(columns)
       /\ Present(k)
       /\ ToPyarrowTypeRaises(columns[k])
       /\ message = <<"Unsupported dtype: ", columns[k].dtype>>
       /\ \A n \in FindingsOf(columns[k].name) : errors[n][1] = NullPrefix
       /\ \A n \in 1..Len(invoked) : ColPos(invoked[n].col) < k
       /\ \A n \in 1..Len(errors) : ColPos(errors[n][2]) <= k
       /\ \A n \in 1..Len(lookups) : ColPos(lookups[n]) <= k

\* C9 witness: the TypeError at the first of two columns, which has
\* validators and non-null rows, while the second column is absent
C9_Witness ==
  /\ outcome = "TypeError"
  /\ Len(columns) = 2
  /\ k = 1
  /\ columns[1].validators # <<>>
  /\ NonNullRows(1) # {}
  /\ ~Present(2)

\* C10: a second call on the same table ends as the first did, with the
\* same message, and no step of validate changes the table, the column
\* mapping or a column's validators.
C10_Idempotent ==
  /\ [](pc = "done" /\ prev # NoResult => outcome = prev.outcome /\ message = prev.message)
  /\ [][df' = df /\ columns' = columns]_vars

\* C10 witness: two calls have ended, both with the composite error
C10_Witness ==
  /\ pc = "done"
  /\ prev.outcome = "ValueError"
  /\ outcome = "ValueError"
  /\ Len(errors) >= 2

\* ======================================================= concurrent callers
\* Several callers run validate on one Schema instance, each on its own
\* table.  `errors`, the loop position and the result are locals of a call
\* (schema.py:45-67), so each caller has its own; self.columns is shared and
\* only read.  The callers interleave between loop iterations.

MaxConcRows == 1

Callers == {"c1", "c2"}

ConcSeries == UNION { [1..n -> Values] : n \in 0..MaxConcRows }

ConcTables ==
  UNION { [present -> {series}] : present \in SUBSET ColNameSet, series \in ConcSeries }

ConcColumnLists ==
  UNION { [1..n -> {"int", "dict"} \X BOOLEAN \X {<<"gt_zero", "is_int">>}] :
            n \in 0..Len(ColNames) }

\* The body of the for loop of validate (lines 48-63) for one column, on the
\* findings list errs: the list after the iteration, and whether the
\* TypeError of to_pyarrow_type left the call.
ColumnBody(col, table, errs) ==
  LET missing == CheckMissingColumn(col.name, table)
  IN IF missing # <<>> THEN [raised |-> FALSE, errors |-> errs \o missing]
     ELSE LET series == table[col.name]
              nullability == CheckNullability(col, series)
          IN IF ToPyarrowTypeRaises(col)
             THEN [raised |-> TRUE, errors |-> errs \o nullability]
             ELSE [raised |-> FALSE,
                   errors |-> errs \o nullability \o CheckType(col, series)
                                \o CheckValidators(col, series, 1).errors]

\* validate run alone, from column i on with the findings errs: its result
RECURSIVE LoopAlone(_, _, _, _)
LoopAlone(cols, table, i, errs) ==
  IF i > Len(cols)
  THEN IF errs # <<>>
       THEN [outcome |-> "ValueError", message |-> ErrorMessage(errs)]
       ELSE [outcome |-> "True", message |-> <<>>]
  ELSE LET r == ColumnBody(cols[i], table, errs)
       IN IF r.raised
          THEN [outcome |-> "TypeError", message |-> UnsupportedMessage(cols[i])]
          ELSE LoopAlone(cols, table, i + 1, r.errors)

ValidateAlone(cols, table) == LoopAlone(cols, table, 1, <<>>)

NewCall(table) ==
  [df |-> table, pc |-> "idle", k |-> 1, errors |-> <<>>,
   outcome |-> "none", message |-> <<>>]

InitConc ==
  /\ columns \in {SchemaInit(ColumnsOf(spec)) : spec \in ConcColumnLists}
  /\ calls \in [Callers -> {NewCall(table) : table \in ConcTables}]
  /\ df = Unused
  /\ pc = Unused
  /\ k = Unused
  /\ errors = Unused
  /\ outcome = Unused
  /\ message = Unused
  /\ invoked = Unused
  /\ lookups = Unused
  /\ prev = Unused
  /\ given = Unused
  /\ heap = Unused
  /\ lookup = Unused
  /\ infer = Unused
  /\ frame = Unused
  /\ fn = Unused
  /\ decl = Unused

concUnchanged ==
  <<columns, df, pc, k, errors, outcome, message, invoked, lookups, prev,
    given, heap, lookup, infer, frame, fn, decl>>

\* Caller c calls validate (line 45)
CallerEnter(c) ==
  /\ calls[c].pc = "idle"
  /\ calls' = [calls EXCEPT ![c].pc = "loop", ![c].errors = <<>>, ![c].k = 1]
  /\ UNCHANGED concUnchanged

\* Mutant of CallerColumn: the findings list is one list of the instance,
\* shared by the running calls
CallerColumnSharedErrors(c) ==
  /\ calls[c].pc = "loop"
  /\ calls[c].k <= Len(columns)
  /\ LET col == columns[calls[c].k]
         r == ColumnBody(col, calls[c].df, calls[c].errors)
         new == ColumnBody(col, calls[c].df, <<>>).errors
     IN calls' =
          [d \in Callers |->
             IF d = c
             THEN IF r.raised
                  THEN [calls[c] EXCEPT !.errors = r.errors, !.pc = "done",
                                        !.outcome = "TypeError",
                                        !.message = UnsupportedMessage(col)]
                  ELSE [calls[c] EXCEPT !.errors = r.errors, !.k = @ + 1]
             ELSE IF calls[d].pc = "loop"
                  THEN [calls[d] EXCEPT !.errors = @ \o new]
                  ELSE calls[d]]
  /\ UNCHANGED concUnchanged

\* One loop iteration of caller c (lines 47-63)
CallerColumn(c) ==
  /\ calls[c].pc = "loop"
  /\ calls[c].k <= Len(columns)
  /\ LET col == columns[calls[c].k]
         r == ColumnBody(col, calls[c].df, calls[c].errors)
     IN calls' =
          [calls EXCEPT ![c] =
             IF r.raised
             THEN [@ EXCEPT !.errors = r.errors, !.pc = "done",
                            !.outcome = "TypeError",
                            !.message = UnsupportedMessage(col)]
             ELSE [@ EXCEPT !.errors = r.errors, !.k = @ + 1]]
  /\ UNCHANGED concUnchanged

\* Caller c leaves the loop: raise ValueError or return True (lines 65-67)
CallerEnd(c) ==
  /\ calls[c].pc = "loop"
  /\ calls[c].k > Len(columns)
  /\ calls' =
       [calls EXCEPT ![c] =
          IF calls[c].errors # <<>>
          THEN [calls[c] EXCEPT !.pc = "done", !.outcome = "ValueError",
                                !.message = ErrorMessage(calls[c].errors)]
          ELSE [calls[c] EXCEPT !.pc = "done", !.outcome = "True"]]
  /\ UNCHANGED concUnchanged

NextConc ==
  \E c \in Callers :
    \/ CallerEnter(c)
    \/ CallerColumn(c)
    \/ CallerEnd(c)

SpecConc == InitConc /\ [][NextConc]_vars

\* C11: every caller's call ends as the same call run alone ends: with the
\* same outcome and the same message, whatever the other callers did in
\* between; during the call its findings are those the call alone has
\* recorded up to the same column.
C11_CallsIndependent ==
  \A c \in Callers :
    /\ calls[c].pc = "done" =>
         /\ calls[c].outcome = ValidateAlone(columns, calls[c].df).outcome
         /\ calls[c].message = ValidateAlone(columns, calls[c].df).message
    /\ calls[c].pc = "loop" =>
         LoopAlone(columns, calls[c].df, calls[c].k, calls[c].errors)
           = ValidateAlone(columns, calls[c].df)

\* C11 witness: one caller has raised its report while the other, on a
\* different table, is between two columns with findings of its own
C11_Witness ==
  /\ calls["c1"].pc = "done"
  /\ calls["c1"].outcome = "ValueError"
  /\ calls["c2"].pc = "loop"
  /\ calls["c2"].k = 2
  /\ Len(columns) = 2
  /\ calls["c2"].errors # <<>>
  /\ calls["c2"].df # calls["c1"].df
  /\ ValidateAlone(columns, calls["c2"].df).message
       # ValidateAlone(columns, calls["c1"].df).message

\* ============================================== schemas with repeated names
\* Schema(...) is built from any list of column specs, names repeated or
\* not, and validate is then called on it.

MaxListLen == 3

\* The specs of the lists: two specs of one name differ in dtype and validators
GivenSpecs ==
  { Column(name, kind[1], TRUE, kind[2]) :
      name \in ColNameSet,
      kind \in {<<"int", <<"gt_zero">>>>, <<"str", <<"is_int">>>>, <<"dict", <<>>>>} }

GivenLists == UNION { [1..n -> GivenSpecs] : n \in 0..MaxListLen }

\* Schema(given), ready for validate(df)
InitDup ==
  /\ given \in GivenLists
  /\ columns = SchemaInit(given)
  /\ df \in ConcTables
  /\ pc = "idle"
  /\ k = 1
  /\ errors = <<>>
  /\ outcome = "none"
  /\ message = <<>>
  /\ invoked = <<>>
  /\ lookups = <<>>
  /\ prev = NoResult
  /\ calls = Unused
  /\ heap = Unused
  /\ lookup = Unused
  /\ infer = Unused
  /\ frame = Unused
  /\ fn = Unused
  /\ decl = Unused

SpecDup == InitDup /\ [][Next]_vars

GivenNames == {given[i].name : i \in 1..Len(given)}

\* The last spec of the given list that carries the name
LastGiven(name) ==
  given[CHOOSE i \in 1..Len(given) :
          /\ given[i].name = name
          /\ \A j \in 1..Len(given) : given[j].name = name => j <= i]

\* C12: the mapping has exactly one entry per distinct name of the list, the
\* entry of a name is the last spec of the list with that name, and validate
\* checks with the kept specs only: every validator it invokes is a validator
\* of the kept spec, every type finding names the storage type of the kept
\* spec, and the unsupported-dtype error is that of a kept spec.
C12_LastWins ==
  /\ \A i, j \in 1..Len(columns) : columns[i].name = columns[j].name => i = j
  /\ {columns[i].name : i \in 1..Len(columns)} = GivenNames
  /\ \A i \in 1..Len(columns) : columns[i] = LastGiven(columns[i].name)
  /\ \A n \in 1..Len(invoked) :
       /\ invoked[n].col \in GivenNames
       /\ invoked[n].j \in 1..Len(LastGiven(invoked[n].col).validators)
       /\ invoked[n].validator = LastGiven(invoked[n].col).validators[invoked[n].j]
  /\ \A n \in 1..Len(errors) :
       errors[n][1] = TypePrefix =>
         /\ ~ToPyarrowTypeRaises(LastGiven(errors[n][2]))
         /\ errors[n][Len(errors[n])] = ToPyarrowType(LastGiven(errors[n][2]))
  /\ outcome = "TypeError" =>
       \E name \in GivenNames : message = UnsupportedMessage(LastGiven(name))

\* C12 witness: a list with the same name twice, with different dtypes and
\* validators, has been validated and a validator of the later spec has run
C12_Witness ==
  /\ Len(given) >= 2
  /\ given[1].name = given[2].name
  /\ given[1].dtype = "int"
  /\ given[2].dtype = "str"
  /\ Len(columns) = 1
  /\ pc = "done"
  /\ invoked # <<>>
  /\ \E n \in 1..Len(errors) : errors[n][1] = TypePrefix

\* ==================================================== the Column interface
\* pdschema.columns.Column: a program creates a Column, with or without a
\* name, and calls set_name and with_name on the objects it holds.  heap is
\* the sequence of the Column objects created so far; `list` is the identity
\* of the list object an object's validators attribute refers to.

MaxObjects == 3

\* name=None: the name is not bound yet
None == "None"

\* Column.__init__ of pdschema, creating the object number id
NewColumn(id, name, dtype, nullable, validators) ==
  [name |-> name, dtype |-> dtype, nullable |-> nullable,
   validators |-> validators, list |-> id]

InitHeap ==
  /\ heap \in { <<NewColumn(1, name, dtype, nullable, validators)>> :
                  name \in ColNameSet \cup {None}, dtype \in {"int", "str"},
                  nullable \in BOOLEAN, validators \in ValidatorLists }
  /\ columns = Unused
  /\ df = Unused
  /\ pc = Unused
  /\ k = Unused
  /\ errors = Unused
  /\ outcome = Unused
  /\ message = Unused
  /\ invoked = Unused
  /\ lookups = Unused
  /\ prev = Unused
  /\ given = Unused
  /\ calls = Unused
  /\ lookup = Unused
  /\ infer = Unused
  /\ frame = Unused
  /\ fn = Unused
  /\ decl = Unused

heapUnchanged ==
  <<columns, df, pc, k, errors, outcome, message, invoked, lookups, prev,
    given, calls, lookup, infer, frame, fn, decl>>

\* col.set_name(name): self.name = name, whatever the name was
SetName(o, name) ==
  /\ heap' = [heap EXCEPT ![o].name = name]
  /\ UNCHANGED heapUnchanged

\* col.with_name(name): a new object of the same class with the new name,
\* the same dtype and nullable, and a deep copy of the validators
WithName(o, name) ==
  /\ Len(heap) < MaxObjects
  /\ heap' = Append(heap, NewColumn(Len(heap) + 1, name, heap[o].dtype,
                                    heap[o].nullable, heap[o].validators))
  /\ UNCHANGED heapUnchanged

NextHeap ==
  \E o \in 1..Len(heap), name \in ColNameSet :
    \/ SetName(o, name)
    \/ WithName(o, name)

SpecHeap == InitHeap /\ [][NextHeap]_vars

\* C13: no step changes the name of an object whose name is bound, and a
\* step that creates an object (with_name) gives it the source's dtype and
\* nullable and a validators list of its own with the same content, and
\* leaves every existing object as it was.
C13_NameImmutable ==
  [][ /\ \A o \in 1..Len(heap) :
           heap[o].name # None => heap'[o].name = heap[o].name
      /\ Len(heap') > Len(heap) =>
           /\ \A o \in 1..Len(heap) : heap'[o] = heap[o]
           /\ \E o \in 1..Len(heap) :
                /\ heap'[Len(heap')].dtype = heap[o].dtype
                /\ heap'[Len(heap')].nullable = heap[o].nullable
                /\ heap'[Len(heap')].validators = heap[o].validators
           /\ \A o \in 1..Len(heap) : heap'[Len(heap')].list # heap[o].list
    ]_vars

\* The with_name half of C13 alone
WithNameCopies ==
  [][ Len(heap') > Len(heap) =>
        /\ \A o \in 1..Len(heap) : heap'[o] = heap[o]
        /\ \A o \in 1..Len(heap) : heap'[Len(heap')].list # heap[o].list
    ]_vars

\* ======================================================== to_pyarrow_type
\* A caller declares a Column with one of the built-in types and calls
\* to_pyarrow_type on it, more than once.

MaxLookups == 2

\* The python types of the closed built-in set: integer, float, string,
\* boolean, timestamp, date, time, decimal, list, mapping
BuiltinTypes ==
  {"int", "float", "str", "bool", "datetime", "date", "time", "Decimal", "list", "dict"}

\* One call of col.to_pyarrow_type(): the descriptor returned (as its str),
\* or the TypeError raised
LookupResult(col) ==
  IF ToPyarrowTypeRaises(col)
  THEN [raised |-> TRUE, value |-> UnsupportedMessage(col)]
  ELSE [raised |-> FALSE, value |-> <<ToPyarrowType(col)>>]

InitLookup ==
  /\ lookup \in { [col |-> Column(name, dtype, nullable, validators), results |-> <<>>] :
                    name \in ColNameSet, dtype \in BuiltinTypes,
                    nullable \in BOOLEAN, validators \in ValidatorLists }
  /\ columns = Unused
  /\ df = Unused
  /\ pc = Unused
  /\ k = Unused
  /\ errors = Unused
  /\ outcome = Unused
  /\ message = Unused
  /\ invoked = Unused
  /\ lookups = Unused
  /\ prev = Unused
  /\ given = Unused
  /\ calls = Unused
  /\ heap = Unused
  /\ infer = Unused
  /\ frame = Unused
  /\ fn = Unused
  /\ decl = Unused

\* col.to_pyarrow_type()
Lookup ==
  /\ Len(lookup.results) < MaxLookups
  /\ lookup' = [lookup EXCEPT !.results = Append(@, LookupResult(lookup.col))]
  /\ UNCHANGED <<columns, df, pc, k, errors, outcome, message, invoked, lookups,
                 prev, given, calls, heap, infer, frame, fn, decl>>

NextLookup == Lookup

SpecLookup == InitLookup /\ [][NextLookup]_vars

\* C14 as stated: for every type of the built-in set the lookup returns a
\* descriptor, the same one every time, and never raises.
C14_TotalOverBuiltins ==
  \A n \in 1..Len(lookup.results) :
    /\ ~lookup.results[n].raised
    /\ lookup.results[n] = lookup.results[1]

\* C14 (amended): the lookup is fixed, and total over int, float, str and bool
\* only: for these four it returns one descriptor, the same on every lookup,
\* and never raises; for a column declared with datetime, date, time,
\* Decimal, list or dict every lookup raises the unsupported-type error.
C14_TotalOverFour ==
  \A n \in 1..Len(lookup.results) :
    /\ lookup.results[n] = lookup.results[1]
    /\ lookup.results[n].raised <=>
         lookup.col.dtype \in {"datetime", "date", "time", "Decimal", "list", "dict"}
    /\ lookup.results[n].raised =>
         lookup.results[n].value[1] = "Unsupported dtype: "
    /\ ~lookup.results[n].raised =>
         /\ Len(lookup.results[n].value) = 1
         /\ lookup.results[n].value[1] \in {"int64", "double", "string", "bool"}

\* C14 witness: a column declared with bool has been looked up twice
C14_Witness ==
  /\ lookup.col.dtype = "bool"
  /\ Len(lookup.results) = 2
  /\ ~lookup.results[2].raised

\* C15: to_pyarrow_type maps int to int64, str to string, float to double
\* and bool to bool, and raises TypeError "Unsupported dtype" for dict.
C15_ToPyarrowType ==
  \A n \in 1..Len(lookup.results) :
    LET r == lookup.results[n]
        dtype == lookup.col.dtype
    IN /\ dtype = "int" => (~r.raised /\ r.value = <<"int64">>)
       /\ dtype = "str" => (~r.raised /\ r.value = <<"string">>)
       /\ dtype = "float" => (~r.raised /\ r.value = <<"double">>)
       /\ dtype = "bool" => (~r.raised /\ r.value = <<"bool">>)
       /\ dtype = "dict" => (r.raised /\ r.value = <<"Unsupported dtype: ", "dict">>)

\* C15 witness: to_pyarrow_type has raised for a column declared with dict
C15_Witness ==
  /\ lookup.col.dtype = "dict"
  /\ lookup.results # <<>>
  /\ lookup.results[1].raised

\* ========================================================= type inference
\* pyschema.types.get_pyarrow_type_from_series.  A series is its storage
\* dtype and the runtime types of its values, in row order: the function
\* reads nothing else of a value.

MaxInferRows == 3

\* The values pd.isnull / dropna take for missing: None and float('nan')
NullTypes == {"NoneType", "nan"}

\* type(value) of the other values of an object column; "set" is a type no
\* table has a key for
ObjectTypes ==
  {"bool", "int", "float", "str", "datetime", "date", "time", "Decimal",
   "list", "dict", "tuple", "set"}

\* pyarrow__python, each descriptor as its str()
pyarrow__python ==
  [int |-> "int64", float |-> "double", str |-> "string", bool |-> "bool",
   datetime |-> "timestamp[us]", date |-> "date32[day]", time |-> "time64[us]",
   Decimal |-> "decimal128(38, 18)", list |-> "list<item: null>",
   dict |-> "map<string, null>", tuple |-> "list<item: null>"]

\* pyarrow__pandas: keyed by the pandas extension dtypes, named as they print
pyarrow__pandas ==
  [Int64 |-> "int64", Int32 |-> "int32", Int16 |-> "int16", Int8 |-> "int8",
   UInt64 |-> "uint64", UInt32 |-> "uint32", UInt16 |-> "uint16", UInt8 |-> "uint8",
   Float64 |-> "double", Float32 |-> "float", string |-> "string",
   boolean |-> "bool", DatetimeTZ |-> "timestamp[us]",
   category |-> "dictionary<values=string, indices=int32, ordered=0>",
   interval |-> "struct<start: double, end: double>", period |-> "int64",
   Sparse |-> "null"]

\* The storage dtypes of the series of the model: object, the plain numpy
\* dtypes, and the nullable extension dtypes
NumpyDTypes == {"int64", "float64", "bool", "datetime64[ns]"}
ExtensionDTypes == {"Int64", "Float64", "string", "boolean"}

\* The runtime types a series of the dtype can hold
HeldTypes(dtype) ==
  CASE dtype = "object" -> ObjectTypes \cup NullTypes
    [] dtype = "int64" -> {"int"}
    [] dtype = "float64" -> {"float", "nan"}
    [] dtype = "bool" -> {"bool"}
    [] dtype = "datetime64[ns]" -> {"Timestamp", "NaT"}
    [] dtype = "Int64" -> {"int", "NA"}
    [] dtype = "Float64" -> {"float", "NA"}
    [] dtype = "string" -> {"str", "NA"}
    [] dtype = "boolean" -> {"bool", "NA"}

StorageDTypes == {"object"} \cup NumpyDTypes \cup ExtensionDTypes

\* pd.isnull on a value of the runtime type
IsNullType(t) == t \in NullTypes \cup {"NaT", "NA"}

\* s.dropna()
RECURSIVE DropNaTypes(_)
DropNaTypes(values) ==
  IF values = <<>> THEN <<>>
  ELSE IF IsNullType(Head(values)) THEN DropNaTypes(Tail(values))
       ELSE <<Head(values)>> \o DropNaTypes(Tail(values))

Returned(patype) == [kind |-> "return", value |-> patype]
RaisedError(exception) == [kind |-> "raise", value |-> exception]
NotInferred == [kind |-> "none", value |-> ""]

\* Mutant of GetPyarrowTypeFromSeries: the sample is the first value, null or not
GetPyarrowTypeFromSeriesFirstRow(s) ==
  IF s.dtype \in DOMAIN pyarrow__pandas THEN Returned(pyarrow__pandas[s.dtype])
  ELSE IF s.dtype = "object" /\ s.values # <<>>
            /\ s.values[1] \in DOMAIN pyarrow__python
       THEN Returned(pyarrow__python[s.values[1]])
       ELSE Returned("null")

\* get_pyarrow_type_from_series(s)
GetPyarrowTypeFromSeries(s) ==
  IF s.dtype \in DOMAIN pyarrow__pandas THEN Returned(pyarrow__pandas[s.dtype])
  ELSE IF s.dtype = "object"
       THEN IF s.values = <<>>
            THEN Returned("null")
            ELSE IF DropNaTypes(s.values) = <<>>
                 THEN RaisedError("IndexError")
                 ELSE LET sample_type == DropNaTypes(s.values)[1]
                      IN IF sample_type \in DOMAIN pyarrow__python
                         THEN Returned(pyarrow__python[sample_type])
                         ELSE Returned("null")
       ELSE Returned("null")

InitInfer ==
  /\ \E dtype \in StorageDTypes, n \in 0..MaxInferRows :
       \E values \in [1..n -> HeldTypes(dtype)] :
         infer = [s |-> [dtype |-> dtype, values |-> values], result |-> NotInferred]
  /\ columns = Unused
  /\ df = Unused
  /\ pc = Unused
  /\ k = Unused
  /\ errors = Unused
  /\ outcome = Unused
  /\ message = Unused
  /\ invoked = Unused
  /\ lookups = Unused
  /\ prev = Unused
  /\ given = Unused
  /\ calls = Unused
  /\ heap = Unused
  /\ lookup = Unused
  /\ frame = Unused
  /\ fn = Unused
  /\ decl = Unused

\* The caller calls get_pyarrow_type_from_series on the series
InferType ==
  /\ infer.result = NotInferred
  /\ infer' = [infer EXCEPT !.result = GetPyarrowTypeFromSeries(infer.s)]
  /\ UNCHANGED <<columns, df, pc, k, errors, outcome, message, invoked, lookups,
                 prev, given, calls, heap, lookup, frame, fn, decl>>

NextInfer == InferType

SpecInfer == InitInfer /\ [][NextInfer]_vars

Inferred == infer.result # NotInferred
NonNull == DropNaTypes(infer.s.values)

\* C16: inference on a column with no non-null value returns the untyped
\* (null) marker and does not raise, whatever the storage dtype.
C16_EmptyIsNullMarker ==
  (Inferred /\ NonNull = <<>>) => infer.result = Returned("null")

\* The type C17 names for the runtime type of the first non-null value
ListedType(t) ==
  CASE t = "bool" -> "bool"
    [] t = "int" -> "int64"
    [] t = "float" -> "double"
    [] t = "str" -> "string"
    [] t = "dict" -> "map<string, null>"
    [] t \in {"list", "tuple"} -> "list<item: null>"
    [] OTHER -> "null"

\* C17 as stated: on an object column with a non-null value the result is
\* the type listed for the runtime type of the first non-null value, and the
\* untyped marker for every type that is not listed.
C17_FirstNonNullAsListed ==
  (Inferred /\ infer.s.dtype = "object" /\ NonNull # <<>>) =>
    infer.result = Returned(ListedType(NonNull[1]))

\* ListedType, with the four types the claim leaves out
SampledType(t) ==
  CASE t = "datetime" -> "timestamp[us]"
    [] t = "date" -> "date32[day]"
    [] t = "time" -> "time64[us]"
    [] t = "Decimal" -> "decimal128(38, 18)"
    [] OTHER -> ListedType(t)

\* C17 (amended): on an object column with a non-null value the result is
\* fixed by the runtime type of the first non-null value alone: bool gives
\* bool, int int64, float double, str string, dict map, list or tuple list,
\* datetime timestamp[us], date date32, time time64[us], Decimal
\* decimal128(38, 18), and any other type the untyped marker; it never raises.
C17_FirstNonNull ==
  (Inferred /\ infer.s.dtype = "object" /\ NonNull # <<>>) =>
    infer.result = Returned(SampledType(NonNull[1]))

\* C17 witness: an object column None, True, 1 has been inferred as bool
C17_Witness ==
  /\ infer.s.dtype = "object"
  /\ infer.s.values = <<"NoneType", "bool", "int">>
  /\ infer.result = Returned("bool")

\* C18: inference on an object column whose non-null values have more than
\* one runtime type raises TypeError.
C18_MixedRaises ==
  (/\ Inferred
   /\ infer.s.dtype = "object"
   /\ Cardinality({NonNull[i] : i \in 1..Len(NonNull)}) > 1)
    => infer.result = RaisedError("TypeError")

\* C19: inference on a column with a native typed dtype returns the type of
\* the dtype, nulls or not: int64 for int64 and Int64, double for float64 and
\* Float64, bool for bool and boolean, timestamp[us] for datetime64, string
\* for the string dtype.
C19_TypedDtype ==
  Inferred =>
    /\ infer.s.dtype \in {"int64", "Int64"} => infer.result = Returned("int64")
    /\ infer.s.dtype \in {"float64", "Float64"} => infer.result = Returned("double")
    /\ infer.s.dtype \in {"bool", "boolean"} => infer.result = Returned("bool")
    /\ infer.s.dtype = "datetime64[ns]" => infer.result = Returned("timestamp[us]")
    /\ infer.s.dtype = "string" => infer.result = Returned("string")

\* The half of C19 about the nullable extension dtypes alone
ExtensionDtypeMapped ==
  (Inferred /\ infer.s.dtype \in ExtensionDTypes) =>
    infer.result = Returned(pyarrow__pandas[infer.s.dtype])

\* ============================================================ infer_schema
\* Schema.infer_schema(table): the caller builds a table from python lists
\* (as test_schema_inference does) and has a Schema inferred from it.  A
\* list is the sequence of the runtime types of its items.

MaxFrameRows == 2

ItemTypes == {"int", "float", "NoneType"}

\* The table data: per column, in table order, its name and its list; the
\* lists of one table have one length
FrameData ==
  UNION { [1..c -> [1..n -> ItemTypes]] : c \in 0..Len(ColNames), n \in 0..MaxFrameRows }

\* Mutant of Store: integers with a missing item are kept as nullable integers
StoreAsNullableInteger(items) ==
  LET types == {items[i] : i \in 1..Len(items)}
  IN IF types \subseteq {"NoneType"} THEN [dtype |-> "object", values |-> items]
     ELSE IF "float" \in types
          THEN [dtype |-> "float64",
                values |-> [i \in 1..Len(items) |->
                              IF items[i] = "NoneType" THEN "nan" ELSE "float"]]
          ELSE IF "NoneType" \in types
               THEN [dtype |-> "Int64",
                     values |-> [i \in 1..Len(items) |->
                                   IF items[i] = "NoneType" THEN "NA" ELSE "int"]]
               ELSE [dtype |-> "int64", values |-> items]

\* The column pd.DataFrame stores for a list: integers alone are stored as
\* int64; a list of numbers with a float or a missing item is stored as
\* float64, the integers widened and the missing items NaN; a list without
\* a number is an object column
Store(items) ==
  LET types == {items[i] : i \in 1..Len(items)}
  IN IF types \subseteq {"NoneType"} THEN [dtype |-> "object", values |-> items]
     ELSE IF types = {"int"} THEN [dtype |-> "int64", values |-> items]
          ELSE [dtype |-> "float64",
                values |-> [i \in 1..Len(items) |->
                              IF items[i] = "NoneType" THEN "nan" ELSE "float"]]

\* Type Inference on a stored column: a typed dtype maps directly to its
\* logical type; an object column classifies its first non-null value, and
\* is the untyped marker when it has none
InferLogicalType(series) ==
  CASE series.dtype \in {"int64", "Int64"} -> "Int64"
    [] series.dtype \in {"float64", "Float64"} -> "Float64"
    [] OTHER ->
         LET sample == DropNaTypes(series.values)
         IN IF sample = <<>> THEN "Object"
            ELSE CASE sample[1] = "int" -> "Int64"
                   [] sample[1] = "float" -> "Float64"
                   [] OTHER -> "Object"

\* Mutant of InferSchema: every inferred column is nullable, as an explicitly
\* constructed one is by default
InferSchemaAllNullable(data) ==
  [i \in 1..Len(data) |->
     Column(ColNames[i], InferLogicalType(Store(data[i])), TRUE, <<>>)]

\* infer_schema: one column spec per table column, in table order, with the
\* inferred type and nullable = the column holds a null
InferSchema(data) ==
  [i \in 1..Len(data) |->
     LET series == Store(data[i])
     IN Column(ColNames[i], InferLogicalType(series),
               \E r \in 1..Len(series.values) : IsNullType(series.values[r]), <<>>)]

\* Column(name, dtype) of pdschema: nullable and validators take their defaults
ColumnWithDefaults(name, dtype) == Column(name, dtype, TRUE, <<>>)

InitFrame ==
  /\ frame \in { [data |-> data, inferred |-> FALSE, schema |-> <<>>, declared |-> <<>>] :
                   data \in FrameData }
  /\ columns = Unused
  /\ df = Unused
  /\ pc = Unused
  /\ k = Unused
  /\ errors = Unused
  /\ outcome = Unused
  /\ message = Unused
  /\ invoked = Unused
  /\ lookups = Unused
  /\ prev = Unused
  /\ given = Unused
  /\ calls = Unused
  /\ heap = Unused
  /\ lookup = Unused
  /\ infer = Unused
  /\ fn = Unused
  /\ decl = Unused

\* schema = Schema.infer_schema(pd.DataFrame(data))
InferSchemaCall ==
  /\ ~frame.inferred
  /\ frame' = [frame EXCEPT !.inferred = TRUE, !.schema = InferSchema(frame.data)]
  /\ UNCHANGED <<columns, df, pc, k, errors, outcome, message, invoked, lookups,
                 prev, given, calls, heap, lookup, infer, fn, decl>>

\* col = Column(name, dtype): a column spec constructed explicitly, without
\* a nullable argument
ConstructColumn ==
  /\ frame.declared = <<>>
  /\ \E name \in ColNameSet, dtype \in {"int", "float"} :
       frame' = [frame EXCEPT !.declared = <<ColumnWithDefaults(name, dtype)>>]
  /\ UNCHANGED <<columns, df, pc, k, errors, outcome, message, invoked, lookups,
                 prev, given, calls, heap, lookup, infer, fn, decl>>

NextFrame ==
  \/ InferSchemaCall
  \/ ConstructColumn

SpecFrame == InitFrame /\ [][NextFrame]_vars

ItemsOf(i) == {frame.data[i][r] : r \in 1..Len(frame.data[i])}

C21_InferredNullability ==
  /\ frame.inferred =>
       /\ Len(frame.schema) = Len(frame.data)
       /\ \A i \in 1..Len(frame.data) :
            /\ frame.schema[i].name = ColNames[i]
            /\ frame.schema[i].nullable <=> "NoneType" \in ItemsOf(i)
  /\ \A i \in 1..Len(frame.declared) : frame.declared[i].nullable

\* C21 witness: a table with a fully populated column and a column with a
\* null has been inferred, and a column has been constructed explicitly
C21_Witness ==
  /\ frame.inferred
  /\ Len(frame.data) = 2
  /\ frame.data[1] = <<"float", "int">>
  /\ frame.data[2] = <<"NoneType", "float">>
  /\ ~frame.schema[1].nullable
  /\ frame.schema[2].nullable
  /\ frame.declared # <<>>

\* =============================================================== pdfunction
\* pdschema.functions.pdfunction: a function f(df, x) is wrapped with
\* declared arguments and outputs and called once.  fn holds the
\* declaration, the call, the position of the wrapper and what it did.

\* The parameters of the wrapped function, in signature order
Params == <<"df", "x">>

\* The columns of the schema the declarations use, for arguments and outputs
FnColumns == <<Column("age", "int", FALSE, <<"gt_zero">>)>>

\* What `arguments` holds for a parameter: a Schema instance, a Schema
\* subclass given as the class, the type int, or no entry
Declarations ==
  [df : {"Schema", "SchemaClass", "none"}, x : {"int", "none"}]

\* The outputs declared, in the order of the `outputs` dict (Schema instances)
OutputLists == {<<>>, <<"result">>, <<"result", "extra">>}

\* Python values: a DataFrame with its table, or an object of another type
DataFrame(table) == [type |-> "DataFrame", table |-> table, items |-> <<>>]
PyObject(type) == [type |-> type, table |-> <<>>, items |-> <<>>]
\* A dict with the given items
Dict(items) == [type |-> "dict", table |-> <<>>, items |-> items]

FnTables ==
  UNION { [present -> {series}] : present \in {{}, {"age"}}, series \in ConcSeries }

ArgValues == {DataFrame(table) : table \in FnTables} \cup {PyObject("str"), PyObject("int")}

\* The ways f is called: how many parameters are passed positionally, and
\* the order of the keywords of the others
CallShapes ==
  { [positional |-> 0, keywords |-> <<"df", "x">>],
    [positional |-> 0, keywords |-> <<"x", "df">>],
    [positional |-> 1, keywords |-> <<"x">>],
    [positional |-> 2, keywords |-> <<>>] }

\* What the wrapped function may return: a dict with or without the entries
\* "result" and "extra", a DataFrame, or None
ExtraValues == {DataFrame([name \in {"age"} |-> <<IntVal(1)>>]), PyObject("str")}

Results ==
  {Dict(<<>>)}
    \cup {Dict([name \in {"result"} |-> v]) : v \in ArgValues}
    \cup {Dict([name \in {"extra"} |-> e]) : e \in ExtraValues}
    \cup {Dict([name \in {"result", "extra"} |-> IF name = "result" THEN v ELSE e]) :
             v \in ArgValues, e \in ExtraValues}
    \cup {DataFrame(table) : table \in FnTables} \cup {PyObject("NoneType")}

NoValue == PyObject("unset")

InitFn ==
  /\ \E declared \in Declarations, outputs \in OutputLists, shape \in CallShapes,
        df_value \in ArgValues, x_value \in {PyObject("int"), PyObject("str")} :
       fn = [declared |-> declared, outputs |-> outputs,
             args |-> SubSeq(<<df_value, x_value>>, 1, shape.positional),
             kwargs |-> [n \in 1..Len(shape.keywords) |->
                           [name |-> shape.keywords[n],
                            value |-> IF shape.keywords[n] = "df" THEN df_value
                                      ELSE x_value]],
             pc |-> "check", i |-> 1, called |-> FALSE, log |-> <<>>,
             result |-> NoValue, returned |-> NoValue,
             outcome |-> "none", message |-> <<>>]
  /\ columns = Unused
  /\ df = Unused
  /\ pc = Unused
  /\ k = Unused
  /\ errors = Unused
  /\ outcome = Unused
  /\ message = Unused
  /\ invoked = Unused
  /\ lookups = Unused
  /\ prev = Unused
  /\ given = Unused
  /\ calls = Unused
  /\ heap = Unused
  /\ lookup = Unused
  /\ infer = Unused
  /\ frame = Unused
  /\ decl = Unused

fnUnchanged ==
  <<columns, df, pc, k, errors, outcome, message, invoked, lookups, prev,
    given, calls, heap, lookup, infer, frame, decl>>

\* repr of the declared type in the messages
TypeRepr(declaration) ==
  IF declaration = "int" THEN "<class 'int'>" ELSE "<class 'TestSchema'>"

\* isinstance(value, declaration) for a declaration that is a class
IsInstance(value, declaration) == declaration = "int" /\ value.type = "int"

\* The wrapper raises: the call ends with the error
FnRaise(error, text) ==
  [fn EXCEPT !.pc = "done", !.outcome = error, !.message = text]

\* The check of one keyword argument (lines 46-61): the state after it
ArgumentChecked(name, value) ==
  LET declaration == fn.declared[name]
      logged == [fn EXCEPT !.i = @ + 1, !.log = Append(@, <<"argument", name>>)]
  IN IF declaration = "none" THEN [fn EXCEPT !.i = @ + 1]
     ELSE IF declaration = "Schema"
     THEN IF value.type # "DataFrame"
          THEN [FnRaise("TypeError", <<"Argument '", name, "' must be a pandas DataFrame">>)
                  EXCEPT !.log = logged.log]
          ELSE LET r == ValidateAlone(FnColumns, value.table)
               IN IF r.outcome = "True" THEN logged
                  ELSE [FnRaise(r.outcome, r.message) EXCEPT !.log = logged.log]
     ELSE IF value.type = "DataFrame" \/ ~IsInstance(value, declaration)
          THEN [FnRaise("TypeError",
                        <<"Argument '", name, "' must be of type ", TypeRepr(declaration)>>)
                  EXCEPT !.log = logged.log]
          ELSE logged

\* One iteration of the loop over kwargs.items() (lines 45-61)
CheckArgument ==
  /\ fn.pc = "check"
  /\ fn.i <= Len(fn.kwargs)
  /\ fn' = ArgumentChecked(fn.kwargs[fn.i].name, fn.kwargs[fn.i].value)
  /\ UNCHANGED fnUnchanged

\* Mutant of CallFunction: the function is called before the loop over the
\* keyword arguments has ended
CallFunctionEarly ==
  /\ fn.pc = "check"
  /\ \E result \in Results :
       fn' = [fn EXCEPT !.pc = "output", !.i = 1, !.called = TRUE, !.result = result,
                        !.log = Append(@, <<"call", "f">>)]
  /\ UNCHANGED fnUnchanged

\* result = func(*args, **kwargs) (line 64), after the last keyword argument
CallFunction ==
  /\ fn.pc = "check"
  /\ fn.i > Len(fn.kwargs)
  /\ \E result \in Results :
       fn' = [fn EXCEPT !.pc = "output", !.i = 1, !.called = TRUE, !.result = result,
                        !.log = Append(@, <<"call", "f">>)]
  /\ UNCHANGED fnUnchanged

\* The check of one declared output (lines 69-75): the state after it
OutputChecked(name) ==
  LET logged == [fn EXCEPT !.i = @ + 1, !.log = Append(@, <<"output", name>>)]
  IN IF name \notin DOMAIN fn.result.items
     THEN [FnRaise("ValueError", <<"Missing output: ", name>>) EXCEPT !.log = logged.log]
     ELSE IF fn.result.items[name].type # "DataFrame"
          THEN [FnRaise("TypeError", <<"Output '", name, "' must be a pandas DataFrame">>)
                  EXCEPT !.log = logged.log]
          ELSE LET r == ValidateAlone(FnColumns, fn.result.items[name].table)
               IN IF r.outcome = "True" THEN logged
                  ELSE [FnRaise(r.outcome, r.message) EXCEPT !.log = logged.log]

\* Mutant of CheckOutput: a declared output missing from the result is skipped
CheckOutputSkipMissing ==
  /\ fn.pc = "output"
  /\ fn.result.type = "dict"
  /\ fn.i <= Len(fn.outputs)
  /\ fn' = IF fn.outputs[fn.i] \notin DOMAIN fn.result.items
           THEN [fn EXCEPT !.i = @ + 1]
           ELSE OutputChecked(fn.outputs[fn.i])
  /\ UNCHANGED fnUnchanged

\* Mutant of CheckOutput: the outputs are looked up in any result
CheckOutputAnyResult ==
  /\ fn.pc = "output"
  /\ fn.i <= Len(fn.outputs)
  /\ fn' = OutputChecked(fn.outputs[fn.i])
  /\ UNCHANGED fnUnchanged

\* One iteration of the loop over outputs.items(), entered only when the
\* result is a dict (lines 67-75)
CheckOutput ==
  /\ fn.pc = "output"
  /\ fn.result.type = "dict"
  /\ fn.i <= Len(fn.outputs)
  /\ fn' = OutputChecked(fn.outputs[fn.i])
  /\ UNCHANGED fnUnchanged

\* return result (line 77)
Return ==
  /\ fn.pc = "output"
  /\ fn.result.type # "dict" \/ fn.i > Len(fn.outputs)
  /\ fn' = [fn EXCEPT !.pc = "done", !.outcome = "return", !.returned = fn.result]
  /\ UNCHANGED fnUnchanged

NextFn ==
  \/ CheckArgument
  \/ CallFunction
  \/ CheckOutput
  \/ Return

SpecFn == InitFn /\ [][NextFn]_vars

\* The table satisfies the columns of FnColumns: age is present and every
\* value of it is a positive integer
TableSatisfies(table) ==
  /\ "age" \in DOMAIN table
  /\ \A r \in 1..Len(table["age"]) : table["age"][r].t = "int" /\ table["age"][r].n > 0

\* The value is one the declaration admits
Acceptable(declaration, value) ==
  CASE declaration \in {"Schema", "SchemaClass"} ->
         value.type = "DataFrame" /\ TableSatisfies(value.table)
    [] declaration = "int" -> value.type = "int"
    [] OTHER -> TRUE

\* The keyword arguments declared with a Schema instance or a primitive type
CheckedKeywords ==
  {n \in 1..Len(fn.kwargs) : fn.declared[fn.kwargs[n].name] \in {"Schema", "int"}}

LogKinds(kind) == {n \in 1..Len(fn.log) : fn.log[n][1] = kind}

BoundValue(p) ==
  IF p <= Len(fn.args) THEN fn.args[p]
  ELSE fn.kwargs[CHOOSE n \in 1..Len(fn.kwargs) : fn.kwargs[n].name = Params[p]].value

\* C23: the wrapped function runs only when every parameter declared with a
\* Schema or a primitive type is bound to an acceptable value, passed
\* positionally or by keyword.
C23_EveryBoundArgumentChecked ==
  fn.called =>
    \A p \in 1..Len(Params) :
      fn.declared[Params[p]] \in {"Schema", "int"} =>
        Acceptable(fn.declared[Params[p]], BoundValue(p))

\* The n-th declared output is in the result and is a DataFrame that
\* satisfies its schema
Missing(n) == fn.outputs[n] \notin DOMAIN fn.result.items
NotTable(n) == ~Missing(n) /\ fn.result.items[fn.outputs[n]].type # "DataFrame"
OutputOK(n) ==
  /\ ~Missing(n)
  /\ ~NotTable(n)
  /\ TableSatisfies(fn.result.items[fn.outputs[n]].table)

\* The function returned a dict and the wrapper has ended
DictDone == fn.pc = "done" /\ fn.called /\ fn.result.type = "dict"

\* The first declared output that is not in order, if any
FirstBad(n) == n \in 1..Len(fn.outputs) /\ ~OutputOK(n) /\ \A m \in 1..(n - 1) : OutputOK(m)

\* C24 as stated: a declared output that is missing from the returned
\* mapping, or is not a table, ends the call with a type error.
C24_MissingIsTypeError ==
  DictDone =>
    \A n \in 1..Len(fn.outputs) :
      (FirstBad(n) /\ (Missing(n) \/ NotTable(n))) => fn.outcome = "TypeError"

\* C24 (amended): when the function returned a mapping, the first declared
\* output that is missing ends the call with ValueError 'Missing output: ',
\* one that is not a DataFrame with TypeError, one that fails its schema with
\* the error of validate; the wrapper returns a mapping only when every
\* declared output is in it, is a DataFrame and satisfies its schema.
C24_OutputsChecked ==
  DictDone =>
    /\ \A n \in 1..Len(fn.outputs) :
         FirstBad(n) =>
           /\ Missing(n) =>
                (fn.outcome = "ValueError"
                   /\ fn.message = <<"Missing output: ", fn.outputs[n]>>)
           /\ NotTable(n) =>
                (fn.outcome = "TypeError"
                   /\ fn.message = <<"Output '", fn.outputs[n], "' must be a pandas DataFrame">>)
           /\ (~Missing(n) /\ ~NotTable(n)) =>
                (fn.outcome = "ValueError" /\ fn.message[1] = "Schema validation failed:\n")
    /\ fn.outcome = "return" <=> \A n \in 1..Len(fn.outputs) : OutputOK(n)

\* C24 witness: the second declared output is missing from the returned
\* dict, and the call has ended with ValueError
C24_Witness ==
  /\ DictDone
  /\ fn.outputs = <<"result", "extra">>
  /\ OutputOK(1)
  /\ Missing(2)
  /\ fn.outcome = "ValueError"

\* C25: a DataFrame passed by keyword for a parameter declared with a Schema
\* subclass given as the class is validated against the columns of the
\* class: when it satisfies them the function runs, when it violates them
\* the call ends with ValueError 'Schema validation failed'.
C25_SchemaClassValidates ==
  (fn.pc = "done" /\ fn.declared.df = "SchemaClass") =>
    \A n \in 1..Len(fn.kwargs) :
      (fn.kwargs[n].name = "df" /\ fn.kwargs[n].value.type = "DataFrame"
         /\ (\A m \in 1..(n - 1) :
               Acceptable(fn.declared[fn.kwargs[m].name], fn.kwargs[m].value))) =>
        IF TableSatisfies(fn.kwargs[n].value.table)
        THEN fn.called
        ELSE fn.outcome = "ValueError" /\ fn.message[1] = "Schema validation failed:\n"

\* C30: when the function returned a value that is not a dict, no declared
\* output is looked up and the wrapper returns the value as it is.
C30_NonMappingUnchecked ==
  (fn.called /\ fn.result.type # "dict") =>
    /\ LogKinds("output") = {}
    /\ fn.outcome \in {"none", "return"}
    /\ fn.pc = "done" => (fn.outcome = "return" /\ fn.returned = fn.result)

\* C30 witness: outputs are declared, the function returned None and the
\* wrapper returned it
C30_Witness ==
  /\ fn.pc = "done"
  /\ fn.outputs # <<>>
  /\ fn.result = PyObject("NoneType")
  /\ fn.returned = PyObject("NoneType")
  /\ fn.outcome = "return"

\* ====================================================== declarative schemas
\* class TestSchema(Schema) with Column(dtype=..., nullable=...) class
\* attributes: the class is instantiated and the instance validates a table.
\* decl holds the attributes in declaration order, the instance's column
\* mapping and the result of validate.

\* Column(dtype=dtype, nullable=nullable, validators=validators): no name yet
UnnamedColumn(dtype, nullable, validators) == Column(None, dtype, nullable, validators)

\* The attribute lists of the classes: distinct attribute names, in
\* declaration order, each with an unnamed column
AttributeLists ==
  { attrs \in UNION { [1..n -> [attr : ColNameSet,
                                 col : {UnnamedColumn(dtype, nullable, <<"gt_zero">>) :
                                          dtype \in {"int", "str"}, nullable \in BOOLEAN}]] :
                        n \in 0..Cardinality(ColNameSet) } :
      \A a, b \in 1..Len(attrs) : a # b => attrs[a].attr # attrs[b].attr }

\* col.with_name(name) as a value: the same dtype, nullable and validators
\* under the new name
WithNameOf(col, name) == Column(name, col.dtype, col.nullable, col.validators)

\* Mutant of DeclaredColumns: the columns are taken as declared, unnamed
DeclaredColumnsUnnamed(attrs) == [i \in 1..Len(attrs) |-> attrs[i].col]

\* The column mapping of an instance: one entry per attribute, in
\* declaration order, keyed by the attribute name and named after it
DeclaredColumns(attrs) == [i \in 1..Len(attrs) |-> WithNameOf(attrs[i].col, attrs[i].attr)]

InitDecl ==
  /\ decl \in { [attrs |-> attrs, table |-> table, instantiated |-> FALSE,
                 keys |-> <<>>, columns |-> <<>>, validated |-> FALSE,
                 result |-> NoResult] :
                  attrs \in AttributeLists, table \in ConcTables }
  /\ columns = Unused
  /\ df = Unused
  /\ pc = Unused
  /\ k = Unused
  /\ errors = Unused
  /\ outcome = Unused
  /\ message = Unused
  /\ invoked = Unused
  /\ lookups = Unused
  /\ prev = Unused
  /\ given = Unused
  /\ calls = Unused
  /\ heap = Unused
  /\ lookup = Unused
  /\ infer = Unused
  /\ frame = Unused
  /\ fn = Unused

declUnchanged ==
  <<columns, df, pc, k, errors, outcome, message, invoked, lookups, prev,
    given, calls, heap, lookup, infer, frame, fn>>

\* schema = TestSchema()
Instantiate ==
  /\ ~decl.instantiated
  /\ decl' = [decl EXCEPT !.instantiated = TRUE,
                          !.keys = [i \in 1..Len(decl.attrs) |-> decl.attrs[i].attr],
                          !.columns = DeclaredColumns(decl.attrs)]
  /\ UNCHANGED declUnchanged

\* schema.validate(table) on the instance
ValidateDeclared ==
  /\ decl.instantiated
  /\ ~decl.validated
  /\ decl' = [decl EXCEPT !.validated = TRUE,
                          !.result = ValidateAlone(decl.columns, decl.table)]
  /\ UNCHANGED declUnchanged

NextDecl ==
  \/ Instantiate
  \/ ValidateDeclared

SpecDecl == InitDecl /\ [][NextDecl]_vars

\* The Schema built explicitly from named columns with the attributes'
\* names, types, nullability and validators
ExplicitSchema ==
  SchemaInit([i \in 1..Len(decl.attrs) |->
                Column(decl.attrs[i].attr, decl.attrs[i].col.dtype,
                       decl.attrs[i].col.nullable, decl.attrs[i].col.validators)])

\* C26: the instance's mapping has one entry per attribute, keyed by the
\* attribute names in declaration order; a column's name is its key, its
\* dtype and nullability those of the attribute; validate on the instance
\* ends as validate on the explicitly built Schema does, and a missing
\* column or a null in a non-nullable column ends it with 'Schema
\* validation failed:'.
C26_DeclarativeAsExplicit ==
  /\ decl.instantiated =>
       /\ Len(decl.columns) = Len(decl.attrs)
       /\ \A i \in 1..Len(decl.attrs) :
            /\ decl.keys[i] = decl.attrs[i].attr
            /\ decl.columns[i].name = decl.keys[i]
            /\ decl.columns[i].dtype = decl.attrs[i].col.dtype
            /\ decl.columns[i].nullable = decl.attrs[i].col.nullable
  /\ decl.validated =>
       /\ decl.result = ValidateAlone(ExplicitSchema, decl.table)
       /\ \A i \in 1..Len(decl.attrs) :
            (\/ decl.attrs[i].attr \notin DOMAIN decl.table
             \/ /\ ~decl.attrs[i].col.nullable
                /\ \E r \in 1..Len(decl.table[decl.attrs[i].attr]) :
                     IsNull(decl.table[decl.attrs[i].attr][r]))
              => /\ decl.result.outcome = "ValueError"
                 /\ decl.result.message[1] = "Schema validation failed:\n"

\* C26 witness: a class with two attributes, declared name before age, has
\* been instantiated and has rejected a table without the column age
C26_Witness ==
  /\ decl.validated
  /\ decl.keys = <<"name", "age">>
  /\ decl.columns[1].name = "name"
  /\ DOMAIN decl.table = {"name"}
  /\ decl.result.outcome = "ValueError"

\* ------------------------------------------ further properties of validate

\* C27: every validator invocation of a call received the non-null value of
\* its row, and no validator finding names a row whose value is null,
\* whether the column is nullable or not and whether or not it has a
\* nullability finding.
C27_NoValidatorOnNull ==
  /\ \A n \in 1..Len(invoked) :
       /\ ~IsNull(invoked[n].val)
       /\ \E i \in ColumnIds :
            /\ columns[i].name = invoked[n].col
            /\ Present(i)
            /\ invoked[n].index + 1 \in NonNullRows(i)
            /\ invoked[n].val = SeriesOf(i)[invoked[n].index + 1]
  /\ \A i \in ColumnIds :
       Present(i) =>
         \A pos \in 1..Len(SeriesOf(i)) :
           IsNull(SeriesOf(i)[pos]) =>
             ValidatorFindings(columns[i].name, IndexAt(pos)) = {}

\* C27 witness: a non-nullable column with validators holds a null and a
\* value its validator rejects; the nullability finding and the validator
\* finding of the other row are both recorded
C27_Witness ==
  /\ pc = "done"
  /\ Len(columns) >= 1
  /\ Present(1)
  /\ ~columns[1].nullable
  /\ columns[1].validators # <<>>
  /\ SeriesOf(1) = <<Null, IntVal(-1)>>
  /\ NullFindings(columns[1].name) # {}
  /\ ValidatorFindings(columns[1].name, 1) # {}
  /\ Len(invoked) > 0

TypeFindings(name) ==
  {n \in 1..Len(errors) : errors[n][1] = TypePrefix /\ errors[n][2] = name}

\* C28: a present column with a mapped dtype has at most one type finding,
\* and has one exactly when some non-null value does not fit the storage
\* type (so none for a column of only nulls); the finding gives the first
\* such value as its reason; the failure is a finding of the report, and a
\* call over mapped dtypes never ends with another error than the report.
C28_TypeCheck ==
  /\ \A i \in ColumnIds :
       (Processed(i) /\ Present(i) /\ ~ToPyarrowTypeRaises(columns[i])) =>
         LET misfits == {pos \in NonNullRows(i) :
                           ~ArrowFits(SeriesOf(i)[pos], ToPyarrowType(columns[i]))}
         IN /\ Cardinality(TypeFindings(columns[i].name)) = (IF misfits = {} THEN 0 ELSE 1)
            /\ \A n \in TypeFindings(columns[i].name) :
                 \E pos \in misfits :
                   /\ \A other \in misfits : pos <= other
                   /\ errors[n] = TypeText(columns[i].name,
                                           ArrowReason(SeriesOf(i)[pos],
                                                       ToPyarrowType(columns[i])))
            /\ (pc = "done" /\ outcome # "TypeError" /\ misfits # {}) =>
                 /\ outcome = "ValueError"
                 /\ \A n \in TypeFindings(columns[i].name) : Contains(message, errors[n])
  /\ (pc = "done" /\ AllSupported) => outcome \in {"True", "ValueError"}

\* C28 witness: an int column whose two values both fail to convert has got
\* one type finding, which the raised report carries
C28_Witness ==
  /\ pc = "done"
  /\ outcome = "ValueError"
  /\ Len(columns) = 2
  /\ columns[1].dtype = "int"
  /\ Present(1)
  /\ SeriesOf(1) = <<StrVal("x"), StrVal("x")>>
  /\ Cardinality(TypeFindings(columns[1].name)) = 1
  /\ ~Present(2)

\* C29: a call that ends with the unsupported-dtype TypeError carries the
\* message of that error alone: not the header of the composite report and
\* none of the findings recorded before it.
C29_UnsupportedAlone ==
  outcome = "TypeError" =>
    /\ pc = "done"
    /\ message = <<"Unsupported dtype: ", columns[k].dtype>>
    /\ \A n \in 1..Len(errors) : ~Contains(message, errors[n])
    /\ ~Contains(message, <<"Schema validation failed:\n">>)

\* C29 witness: the call ended with the TypeError at the second column after
\* a finding for the first column and the nullability finding of the second
C29_Witness ==
  /\ outcome = "TypeError"
  /\ k = 2
  /\ Len(errors) >= 2
  /\ errors[Len(errors)] = NullText(columns[2].name)
  /\ errors[1][2] = columns[1].name

====
